---- MODULE Spec2Model ----
(***************************************************************************)
(* Symmetric-Solana: the fixed-point math layer (src/math/src/lib.rs) and  *)
(* the weighted-pool program that calls it                                 *)
(* (src/programs/weighted-pool/src/lib.rs).                                *)
(*                                                                         *)
(* Scale.  TLC's integers are 32 bits wide, so the widths of the source    *)
(* are modelled at a reduced scale that keeps their order:                 *)
(*     u64 < ONE * u64 < u128 < U256.                                      *)
(*   source  10^18 (ONE)   2^64 (u64)   2^128 (u128)   2^256 (U256)        *)
(*   model   10^3          2^11         2^21           2^31                *)
(* Every operator below is written over ONE, U64_MAX, U128_MOD and         *)
(* U256_MAX, never over their values, and checks for overflow before it    *)
(* multiplies or adds, as the uint crate does.                             *)
(*                                                                         *)
(* A panic (uint overflow, division by zero, a failed assert_eq!) is a     *)
(* negative value; every operator hands on the first panic among its       *)
(* operands, in the order Rust evaluates them.                             *)
(***************************************************************************)
EXTENDS Integers, Sequences, FiniteSets, TLC

VARIABLES
    call,       \* the math call made last: [op, args, res]
    prev,       \* the call before it, when `call` was fed from its result
    pool,       \* the Pool account: [weights, swap_fee, total_bpt]
    vault_bal,  \* the amount held by the vault token account of each token
    user_bal,   \* the amount held by the user's token account of each token
    user_lp,    \* the amount held by the user's LP token account
    ix,         \* the outcome of the instruction processed last
    vault_state,\* the VaultState account: [created, payer, owner, pool_count]
    registered  \* how many register_pool calls have returned Ok

mathVars == <<call, prev>>
poolVars == <<pool, vault_bal, user_bal, user_lp, ix>>
vaultVars == <<vault_state, registered>>
vars == <<call, prev, pool, vault_bal, user_bal, user_lp, ix, vault_state,
          registered>>

----------------------------------------------------------------------------
(* Widths and the fixed-point unit *)

ONE == 1000
U64_MAX == 2047
U128_MOD == 2097152
U256_MAX == 2147483647

U128_MAX == U128_MOD - 1

PanicOverflow == -1
PanicDivZero == -2
PanicLength == -3

IsPanic(x) == x < 0

----------------------------------------------------------------------------
(* U256 operators of the uint crate: +, -, *, / panic on overflow, on      *)
(* underflow and on a zero divisor.                                        *)

U256Add(a, b) ==
    IF a < 0 THEN a
    ELSE IF b < 0 THEN b
    ELSE IF a > U256_MAX - b THEN PanicOverflow
    ELSE a + b

U256Sub(a, b) ==
    IF a < 0 THEN a
    ELSE IF b < 0 THEN b
    ELSE IF b > a THEN PanicOverflow
    ELSE a - b

U256Mul(a, b) ==
    IF a < 0 THEN a
    ELSE IF b < 0 THEN b
    ELSE IF a = 0 \/ b = 0 THEN 0
    ELSE IF a > U256_MAX \div b THEN PanicOverflow
    ELSE a * b

U256Div(a, b) ==
    IF a < 0 THEN a
    ELSE IF b < 0 THEN b
    ELSE IF b = 0 THEN PanicDivZero
    ELSE a \div b

saturating_sub(a, b) ==
    IF a < 0 THEN a
    ELSE IF b < 0 THEN b
    ELSE IF b > a THEN 0
    ELSE a - b

----------------------------------------------------------------------------
(* fixed: 18-decimal helpers *)

mul_down(a, b) == U256Div(U256Mul(a, b), ONE)

\* mul_up with the round-up term (+ ONE - 1) left out.
mul_up_truncating(a, b) ==
    IF a < 0 THEN a
    ELSE IF b < 0 THEN b
    ELSE IF a = 0 \/ b = 0 THEN 0
    ELSE U256Div(U256Mul(a, b), ONE)

mul_up(a, b) ==
    IF a < 0 THEN a
    ELSE IF b < 0 THEN b
    ELSE IF a = 0 \/ b = 0 THEN 0
    ELSE U256Div(U256Sub(U256Add(U256Mul(a, b), ONE), 1), ONE)

div_down(a, b) == U256Div(U256Mul(a, ONE), b)

div_up(a, b) ==
    IF a < 0 THEN a
    ELSE IF b < 0 THEN b
    ELSE IF a = 0 THEN 0
    ELSE U256Div(U256Sub(U256Add(U256Mul(a, ONE), b), 1), b)

complement(x) == U256Sub(ONE, x)

----------------------------------------------------------------------------
(* fixed: exponentiation                                                   *)
(*                                                                         *)
(* An f64 is modelled by the fixed-point value it stands for (to_f64       *)
(* divides by 1e18, from_f64 multiplies by it and truncates), so the       *)
(* rounding of the 53-bit mantissa is below the model's unit. f64_pow is   *)
(* the real power, truncated, for the exponents 1/2, 1 and 2, which are    *)
(* the ones the weights 1/2 and 1 produce; every f64 beyond the u128 range *)
(* is F64_HUGE, since from_f64 saturates them alike. A base below 1 to a   *)
(* whole exponent above 2 (the swap instruction produces these) is         *)
(* multiplied out with three more digits than the unit, then truncated.    *)

RECURSIVE SqrtSearch(_, _, _)
SqrtSearch(n, lo, hi) ==
    IF lo = hi THEN lo
    ELSE LET mid == (lo + hi + 1) \div 2
         IN  IF mid * mid <= n THEN SqrtSearch(n, mid, hi)
             ELSE SqrtSearch(n, lo, mid - 1)

ISqrt(n) == SqrtSearch(n, 0, 46340)

F64_HUGE == U128_MOD

to_f64(x) == x % U128_MOD

from_f64(v) ==
    IF v <= 0 THEN 0
    ELSE IF v > U128_MAX THEN U128_MAX
    ELSE v

RECURSIVE PowBelowOne(_, _, _)
PowBelowOne(x, k, p) ==
    IF k = 0 THEN p \div ONE
    ELSE PowBelowOne(x, k - 1, (p * x) \div ONE)

f64_pow(x, y) ==
    IF y = 0 THEN ONE
    ELSE IF x = 0 THEN 0
    ELSE IF x = ONE THEN ONE
    ELSE CASE y = ONE \div 2 -> ISqrt(x * ONE)
           [] y = ONE -> x
           [] y = 2 * ONE ->
                IF x > 46340 \/ (x * x) \div ONE > U128_MAX THEN F64_HUGE
                ELSE (x * x) \div ONE
           [] y > 2 * ONE /\ y % ONE = 0 /\ x < ONE ->
                PowBelowOne(x, y \div ONE, ONE * ONE)

pow_down(base, exp) ==
    IF base < 0 THEN base
    ELSE IF exp < 0 THEN exp
    ELSE IF exp = 0 THEN ONE
    ELSE IF base = 0 THEN 0
    ELSE from_f64(f64_pow(to_f64(base), to_f64(exp)))

RECURSIVE pow_up_loop(_, _, _, _)
pow_up_loop(base, exp, result, bit) ==
    IF bit = 0 THEN result
    ELSE LET squared == mul_up(base, base)
             product == IF (exp \div bit) % 2 = 1 THEN mul_up(result, squared)
                        ELSE result
         IN  IF squared < 0 THEN squared
             ELSE IF product < 0 THEN product
             ELSE pow_up_loop(squared, exp, product, bit \div 2)

\* pow_up with its two early returns in the other order.
pow_up_base_first(base, exp) ==
    IF base < 0 THEN base
    ELSE IF exp < 0 THEN exp
    ELSE IF base = 0 THEN 0
    ELSE IF exp = 0 THEN ONE
    ELSE pow_up_loop(base, exp, ONE, U128_MOD \div 2)

pow_up(base, exp) ==
    IF base < 0 THEN base
    ELSE IF exp < 0 THEN exp
    ELSE IF exp = 0 THEN ONE
    ELSE IF base = 0 THEN 0
    ELSE pow_up_loop(base, exp, ONE, U128_MOD \div 2)

pow(base, exp) == pow_down(base, exp)

----------------------------------------------------------------------------
(* weighted_math: invariant and swaps *)

RECURSIVE InvariantFold(_, _, _, _)
InvariantFold(balances, weights, i, inv) ==
    IF inv < 0 \/ i > Len(balances) THEN inv
    ELSE InvariantFold(balances, weights, i + 1,
                       mul_down(inv, pow(balances[i], weights[i])))

calculate_invariant(balances, weights) ==
    IF Len(balances) # Len(weights) THEN PanicLength
    ELSE InvariantFold(balances, weights, 1, ONE)

calc_out_given_in(balance_in, weight_in, balance_out, weight_out, amount_in, swap_fee) ==
    LET amount_in_after_fee == mul_down(amount_in, complement(swap_fee))
        new_balance_in == U256Add(balance_in, amount_in_after_fee)
        base == div_down(balance_in, new_balance_in)
        exponent == div_down(weight_in, weight_out)
        power == pow(base, exponent)
    IN  mul_down(balance_out, complement(power))

calc_in_given_out(balance_in, weight_in, balance_out, weight_out, amount_out, swap_fee) ==
    LET denom == U256Sub(balance_out, amount_out)
        base == div_down(balance_out, denom)
        exponent == div_down(weight_out, weight_in)
        power == pow(base, exponent)
        ratio == U256Sub(power, ONE)
        without_fee == mul_down(balance_in, ratio)
    IN  div_up(without_fee, complement(swap_fee))

----------------------------------------------------------------------------
(* weighted_math: joins and exits *)

JoinRatio(balances, amounts_in, i) ==
    div_down(U256Add(balances[i], amounts_in[i]), balances[i])

\* First pass of the join: the weighted mean of the balance ratios.
RECURSIVE JoinMean(_, _, _, _, _)
JoinMean(balances, weights, amounts_in, i, acc) ==
    IF acc < 0 \/ i > Len(balances) THEN acc
    ELSE JoinMean(balances, weights, amounts_in, i + 1,
                  U256Add(acc, mul_down(JoinRatio(balances, amounts_in, i),
                                        weights[i])))

JoinAmountAfterFee(balances, amounts_in, swap_fee, mean, i) ==
    IF JoinRatio(balances, amounts_in, i) > mean
    THEN LET non_taxable == mul_down(balances[i], U256Sub(mean, ONE))
             taxable == saturating_sub(amounts_in[i], non_taxable)
         IN  U256Add(non_taxable, mul_down(taxable, complement(swap_fee)))
    ELSE amounts_in[i]

\* Second pass of the join: the invariant ratio after the fee on the excess.
RECURSIVE JoinInvariantRatio(_, _, _, _, _, _, _)
JoinInvariantRatio(balances, weights, amounts_in, swap_fee, mean, i, inv) ==
    IF inv < 0 \/ i > Len(balances) THEN inv
    ELSE LET after == JoinAmountAfterFee(balances, amounts_in, swap_fee,
                                         mean, i)
             balance_ratio == div_down(U256Add(balances[i], after),
                                       balances[i])
         IN  JoinInvariantRatio(balances, weights, amounts_in, swap_fee,
                                mean, i + 1,
                                mul_down(inv, pow(balance_ratio, weights[i])))

calc_bpt_out_given_exact_tokens_in(balances, weights, amounts_in, total_bpt, swap_fee) ==
    IF Len(balances) # Len(weights) \/ Len(balances) # Len(amounts_in)
    THEN PanicLength
    ELSE LET mean == JoinMean(balances, weights, amounts_in, 1, 0)
             invariant_ratio ==
                 JoinInvariantRatio(balances, weights, amounts_in, swap_fee,
                                    mean, 1, ONE)
         IN  IF mean < 0 THEN mean
             ELSE IF invariant_ratio < 0 THEN invariant_ratio
             ELSE IF invariant_ratio <= ONE THEN 0
             ELSE mul_down(total_bpt, U256Sub(invariant_ratio, ONE))

calc_token_in_given_exact_bpt_out(balance_in, weight_in, bpt_out, total_bpt, swap_fee) ==
    LET invariant_ratio == div_up(U256Add(total_bpt, bpt_out), total_bpt)
        power == pow_up(invariant_ratio, div_down(ONE, weight_in))
        new_balance_in == mul_up(balance_in, power)
        amount_in_without_fee == saturating_sub(new_balance_in, balance_in)
        non_taxable == mul_up(balance_in, U256Sub(invariant_ratio, ONE))
        taxable == saturating_sub(amount_in_without_fee, non_taxable)
    IN  IF amount_in_without_fee < 0 THEN amount_in_without_fee
        ELSE U256Add(non_taxable, div_up(taxable, complement(swap_fee)))

\* The first panic of a vector of results, or 0.
RECURSIVE FirstPanic(_, _)
FirstPanic(vec, i) ==
    IF i > Len(vec) THEN 0
    ELSE IF vec[i] < 0 THEN vec[i]
    ELSE FirstPanic(vec, i + 1)

VecRes(first, vec) ==
    IF first < 0 THEN [ok |-> FALSE, val |-> first, vec |-> <<>>]
    ELSE IF FirstPanic(vec, 1) < 0
    THEN [ok |-> FALSE, val |-> FirstPanic(vec, 1), vec |-> <<>>]
    ELSE [ok |-> TRUE, val |-> 0, vec |-> vec]

calc_token_out_given_exact_bpt_in(balance_out, weight_out, bpt_in, total_bpt, swap_fee) ==
    LET invariant_ratio == complement(div_down(bpt_in, total_bpt))
        power == pow_down(invariant_ratio, div_down(ONE, weight_out))
        new_balance_out == mul_down(balance_out, power)
        amount_out_before_fee == saturating_sub(balance_out, new_balance_out)
        non_taxable == mul_down(balance_out, complement(invariant_ratio))
        taxable == saturating_sub(amount_out_before_fee, non_taxable)
    IN  IF amount_out_before_fee < 0 THEN amount_out_before_fee
        ELSE U256Add(non_taxable, mul_down(taxable, complement(swap_fee)))

\* calc_tokens_out_given_exact_bpt_in with the burn ratio rounded up.
calc_tokens_out_ratio_up(balances, bpt_in, total_bpt, exit_fee) ==
    LET bpt_to_burn == mul_up(bpt_in, complement(exit_fee))
        bpt_ratio == div_up(bpt_to_burn, total_bpt)
    IN  VecRes(bpt_ratio,
               [i \in 1 .. Len(balances) |-> mul_down(balances[i], bpt_ratio)])

calc_tokens_out_given_exact_bpt_in(balances, bpt_in, total_bpt, exit_fee) ==
    LET bpt_to_burn == mul_up(bpt_in, complement(exit_fee))
        bpt_ratio == div_down(bpt_to_burn, total_bpt)
    IN  VecRes(bpt_ratio,
               [i \in 1 .. Len(balances) |-> mul_down(balances[i], bpt_ratio)])

ExitRatio(balances, amounts_out, i) ==
    div_down(U256Sub(balances[i], amounts_out[i]), balances[i])

\* First pass of the exit: the weighted mean of the balance ratios.
RECURSIVE ExitMean(_, _, _, _, _)
ExitMean(balances, weights, amounts_out, i, acc) ==
    IF acc < 0 \/ i > Len(balances) THEN acc
    ELSE ExitMean(balances, weights, amounts_out, i + 1,
                  U256Add(acc, mul_down(ExitRatio(balances, amounts_out, i),
                                        weights[i])))

ExitAmountWithFee(balances, amounts_out, swap_fee, mean, i) ==
    IF ExitRatio(balances, amounts_out, i) < mean
    THEN LET non_taxable == mul_down(balances[i], complement(mean))
             taxable == saturating_sub(amounts_out[i], non_taxable)
         IN  U256Add(non_taxable, div_up(taxable, complement(swap_fee)))
    ELSE amounts_out[i]

\* Second pass of the exit: the invariant ratio with the fee on the excess.
RECURSIVE ExitInvariantRatio(_, _, _, _, _, _, _)
ExitInvariantRatio(balances, weights, amounts_out, swap_fee, mean, i, inv) ==
    IF inv < 0 \/ i > Len(balances) THEN inv
    ELSE LET with_fee == ExitAmountWithFee(balances, amounts_out, swap_fee,
                                           mean, i)
             balance_ratio == div_down(U256Sub(balances[i], with_fee),
                                       balances[i])
         IN  ExitInvariantRatio(balances, weights, amounts_out, swap_fee,
                                mean, i + 1,
                                mul_down(inv, pow(balance_ratio, weights[i])))

calc_bpt_in_given_exact_tokens_out(balances, weights, amounts_out, total_bpt, swap_fee) ==
    IF Len(balances) # Len(weights) \/ Len(balances) # Len(amounts_out)
    THEN PanicLength
    ELSE LET mean == ExitMean(balances, weights, amounts_out, 1, 0)
             invariant_ratio ==
                 ExitInvariantRatio(balances, weights, amounts_out, swap_fee,
                                    mean, 1, ONE)
         IN  IF mean < 0 THEN mean
             ELSE IF invariant_ratio < 0 THEN invariant_ratio
             ELSE IF invariant_ratio >= ONE THEN 0
             ELSE mul_up(total_bpt, complement(invariant_ratio))

----------------------------------------------------------------------------
(* The record of a call *)

Res(v) == [ok |-> v >= 0, val |-> v, vec |-> <<>>]

NoCall == [op |-> "none", args |-> <<>>, res |-> Res(0)]

----------------------------------------------------------------------------
(* Inputs.  A run is one call on inputs drawn here, which a second call    *)
(* may follow that is fed from the first one's result.                     *)

MaxSmall == 3
MaxLen == 2

Operands == (0 .. MaxSmall) \cup
            {ONE - 1, ONE, ONE + 1, ONE + ONE \div 2, 2 * ONE + 1,
             46340, U128_MOD, U256_MAX}

PowBases == (0 .. MaxSmall) \cup
            {ONE - 1, ONE, ONE + 1, 2 * ONE, U128_MOD, U128_MOD + ONE}
PowExps == {0, ONE \div 2, ONE, 2 * ONE, U128_MOD, U128_MOD + ONE}

WeightVals == {ONE \div 2, ONE}
FeeVals == {0, 1, ONE \div 2}
BalanceVals == {ONE, 50 * ONE}
AmountVals == {0, ONE, 10 * ONE}
SupplyVals == {ONE, 100 * ONE}
SwapAmounts == (1 .. MaxSmall) \cup {ONE \div 2, ONE, 10 * ONE}

SeqsUpTo(S, n) == UNION {[1 .. k -> S] : k \in 0 .. n}

Fresh == call = NoCall /\ prev = NoCall

----------------------------------------------------------------------------
(* Actions: one per operation of the math layer *)

MulDown ==
    /\ Fresh
    /\ \E a \in Operands, b \in Operands :
        call' = [op |-> "mul_down", args |-> [a |-> a, b |-> b],
                 res |-> Res(mul_down(a, b))]
    /\ UNCHANGED prev
    /\ UNCHANGED <<poolVars, vaultVars>>

MulUp ==
    /\ Fresh
    /\ \E a \in Operands, b \in Operands :
        call' = [op |-> "mul_up", args |-> [a |-> a, b |-> b],
                 res |-> Res(mul_up(a, b))]
    /\ UNCHANGED prev
    /\ UNCHANGED <<poolVars, vaultVars>>

DivDown ==
    /\ Fresh
    /\ \E a \in Operands, b \in Operands :
        call' = [op |-> "div_down", args |-> [a |-> a, b |-> b],
                 res |-> Res(div_down(a, b))]
    /\ UNCHANGED prev
    /\ UNCHANGED <<poolVars, vaultVars>>

DivUp ==
    /\ Fresh
    /\ \E a \in Operands, b \in Operands :
        call' = [op |-> "div_up", args |-> [a |-> a, b |-> b],
                 res |-> Res(div_up(a, b))]
    /\ UNCHANGED prev
    /\ UNCHANGED <<poolVars, vaultVars>>

PowDown ==
    /\ Fresh
    /\ \E base \in PowBases, exp \in PowExps :
        call' = [op |-> "pow_down", args |-> [base |-> base, exp |-> exp],
                 res |-> Res(pow_down(base, exp))]
    /\ UNCHANGED prev
    /\ UNCHANGED <<poolVars, vaultVars>>

PowUp ==
    /\ Fresh
    /\ \E base \in PowBases, exp \in PowExps :
        call' = [op |-> "pow_up", args |-> [base |-> base, exp |-> exp],
                 res |-> Res(pow_up(base, exp))]
    /\ UNCHANGED prev
    /\ UNCHANGED <<poolVars, vaultVars>>

Pow ==
    /\ Fresh
    /\ \E base \in PowBases, exp \in PowExps :
        call' = [op |-> "pow", args |-> [base |-> base, exp |-> exp],
                 res |-> Res(pow(base, exp))]
    /\ UNCHANGED prev
    /\ UNCHANGED <<poolVars, vaultVars>>

CalculateInvariant ==
    /\ Fresh
    /\ \E balances \in SeqsUpTo(BalanceVals, MaxLen),
          weights \in SeqsUpTo(WeightVals, MaxLen) :
        call' = [op |-> "calculate_invariant",
                 args |-> [balances |-> balances, weights |-> weights],
                 res |-> Res(calculate_invariant(balances, weights))]
    /\ UNCHANGED prev
    /\ UNCHANGED <<poolVars, vaultVars>>

CalcOutGivenIn ==
    /\ Fresh
    /\ \E balance_in \in BalanceVals, weight_in \in WeightVals,
          balance_out \in BalanceVals, weight_out \in WeightVals,
          amount_in \in SwapAmounts, swap_fee \in FeeVals :
        call' = [op |-> "calc_out_given_in",
                 args |-> [balance_in |-> balance_in, weight_in |-> weight_in,
                           balance_out |-> balance_out,
                           weight_out |-> weight_out,
                           amount_in |-> amount_in, swap_fee |-> swap_fee],
                 res |-> Res(calc_out_given_in(balance_in, weight_in,
                                               balance_out, weight_out,
                                               amount_in, swap_fee))]
    /\ UNCHANGED prev
    /\ UNCHANGED <<poolVars, vaultVars>>

\* The amount to pay for amount_out: drawn, or the amount the swap before
\* it paid out, in the same pool.
CalcInGivenOut ==
    \/ /\ Fresh
       /\ \E balance_in \in BalanceVals, weight_in \in WeightVals,
             balance_out \in BalanceVals, weight_out \in WeightVals,
             amount_out \in SwapAmounts, swap_fee \in FeeVals :
           call' = [op |-> "calc_in_given_out",
                    args |-> [balance_in |-> balance_in,
                              weight_in |-> weight_in,
                              balance_out |-> balance_out,
                              weight_out |-> weight_out,
                              amount_out |-> amount_out,
                              swap_fee |-> swap_fee],
                    res |-> Res(calc_in_given_out(balance_in, weight_in,
                                                  balance_out, weight_out,
                                                  amount_out, swap_fee))]
       /\ UNCHANGED prev
       /\ UNCHANGED <<poolVars, vaultVars>>
    \/ /\ prev = NoCall
       /\ call.op = "calc_out_given_in"
       /\ call.res.ok
       /\ prev' = call
       /\ call' = [op |-> "calc_in_given_out",
                   args |-> [balance_in |-> call.args.balance_in,
                             weight_in |-> call.args.weight_in,
                             balance_out |-> call.args.balance_out,
                             weight_out |-> call.args.weight_out,
                             amount_out |-> call.res.val,
                             swap_fee |-> call.args.swap_fee],
                   res |-> Res(calc_in_given_out(
                                   call.args.balance_in, call.args.weight_in,
                                   call.args.balance_out, call.args.weight_out,
                                   call.res.val, call.args.swap_fee))]
       /\ UNCHANGED <<poolVars, vaultVars>>

CalcBptOutGivenExactTokensIn ==
    /\ Fresh
    /\ \E balances \in SeqsUpTo(BalanceVals, MaxLen),
          weights \in SeqsUpTo(WeightVals, MaxLen),
          amounts_in \in SeqsUpTo(AmountVals, MaxLen),
          total_bpt \in SupplyVals, swap_fee \in FeeVals :
        call' = [op |-> "calc_bpt_out_given_exact_tokens_in",
                 args |-> [balances |-> balances, weights |-> weights,
                           amounts_in |-> amounts_in, total_bpt |-> total_bpt,
                           swap_fee |-> swap_fee],
                 res |-> Res(calc_bpt_out_given_exact_tokens_in(
                                 balances, weights, amounts_in, total_bpt,
                                 swap_fee))]
    /\ UNCHANGED prev
    /\ UNCHANGED <<poolVars, vaultVars>>

CalcTokenInGivenExactBptOut ==
    /\ Fresh
    /\ \E balance_in \in BalanceVals, weight_in \in WeightVals,
          bpt_out \in AmountVals \cup {1}, total_bpt \in SupplyVals,
          swap_fee \in FeeVals :
        call' = [op |-> "calc_token_in_given_exact_bpt_out",
                 args |-> [balance_in |-> balance_in, weight_in |-> weight_in,
                           bpt_out |-> bpt_out, total_bpt |-> total_bpt,
                           swap_fee |-> swap_fee],
                 res |-> Res(calc_token_in_given_exact_bpt_out(
                                 balance_in, weight_in, bpt_out, total_bpt,
                                 swap_fee))]
    /\ UNCHANGED prev
    /\ UNCHANGED <<poolVars, vaultVars>>

\* The proportional exit: on drawn inputs, or burning the BPT the join
\* before it minted, against the supply after that join
\* (tests::join_exit_round_trip).
CalcTokensOutGivenExactBptIn ==
    \/ /\ Fresh
       /\ \E balances \in SeqsUpTo(BalanceVals \cup {3}, MaxLen),
             bpt_in \in AmountVals \cup {1, 7}, total_bpt \in SupplyVals \cup {7},
             exit_fee \in FeeVals :
           call' = [op |-> "calc_tokens_out_given_exact_bpt_in",
                    args |-> [balances |-> balances, bpt_in |-> bpt_in,
                              total_bpt |-> total_bpt, exit_fee |-> exit_fee],
                    res |-> calc_tokens_out_given_exact_bpt_in(
                                balances, bpt_in, total_bpt, exit_fee)]
       /\ UNCHANGED prev
       /\ UNCHANGED <<poolVars, vaultVars>>
    \/ /\ prev = NoCall
       /\ call.op = "calc_bpt_out_given_exact_tokens_in"
       /\ call.res.ok
       /\ U256Add(call.args.total_bpt, call.res.val) >= 0
       /\ prev' = call
       /\ call' = [op |-> "calc_tokens_out_given_exact_bpt_in",
                   args |-> [balances |-> call.args.balances,
                             bpt_in |-> call.res.val,
                             total_bpt |-> call.args.total_bpt + call.res.val,
                             exit_fee |-> 0],
                   res |-> calc_tokens_out_given_exact_bpt_in(
                               call.args.balances, call.res.val,
                               call.args.total_bpt + call.res.val, 0)]
       /\ UNCHANGED <<poolVars, vaultVars>>

CalcBptInGivenExactTokensOut ==
    /\ Fresh
    /\ \E balances \in SeqsUpTo(BalanceVals, MaxLen),
          weights \in SeqsUpTo(WeightVals, MaxLen),
          amounts_out \in SeqsUpTo(AmountVals, MaxLen),
          total_bpt \in SupplyVals, swap_fee \in FeeVals :
        call' = [op |-> "calc_bpt_in_given_exact_tokens_out",
                 args |-> [balances |-> balances, weights |-> weights,
                           amounts_out |-> amounts_out,
                           total_bpt |-> total_bpt, swap_fee |-> swap_fee],
                 res |-> Res(calc_bpt_in_given_exact_tokens_out(
                                 balances, weights, amounts_out, total_bpt,
                                 swap_fee))]
    /\ UNCHANGED prev
    /\ UNCHANGED <<poolVars, vaultVars>>

----------------------------------------------------------------------------
(* weighted_pool: the program's accounts and instructions.                 *)
(* A failed instruction (an Err, a panic, a failed CPI) leaves every       *)
(* account as it was; `ix` records what the instruction did.               *)

MaxTokens == 3

PoolWeights == <<ONE \div 2, ONE \div 2>>
PoolFees == {0, 1}

NoIx == [name |-> "none", result |-> "none", transferred |-> <<>>,
         bpt_out_fp |-> 0, minted |-> 0]

\* The state initialize_pool leaves: the weights and the fee given, no BPT.
InitializedPool(weights, swap_fee) ==
    [weights |-> weights, swap_fee |-> swap_fee, total_bpt |-> 0]

\* spl_token transfer: the source must hold the amount, the destination
\* must not overflow.
TransfersOk(from, to, amounts) ==
    \A i \in 1 .. Len(amounts) :
        from[i] >= amounts[i] /\ to[i] + amounts[i] <= U64_MAX

JoinBptOutFp(amounts_in) ==
    LET n == Len(pool.weights)
        balances_fp == [i \in 1 .. n |-> U256Mul(vault_bal[i], ONE)]
        weights_fp == pool.weights
        amounts_fp == [i \in 1 .. Len(amounts_in) |->
                          U256Mul(amounts_in[i], ONE)]
    IN  calc_bpt_out_given_exact_tokens_in(
            balances_fp, weights_fp, amounts_fp,
            U256Mul(pool.total_bpt, ONE), pool.swap_fee)

\* The outcome of the join once both length checks have passed.
JoinResult(amounts_in, bpt_out_fp) ==
    LET bpt_out == bpt_out_fp \div ONE
    IN  IF bpt_out_fp < 0 THEN "Panic"
        ELSE IF ~(bpt_out_fp > 0) THEN "MathUnderflow"
        ELSE IF bpt_out > U64_MAX THEN "Panic"
        ELSE IF ~TransfersOk(user_bal, vault_bal, amounts_in)
        THEN "TokenError"
        ELSE IF user_lp + bpt_out > U64_MAX THEN "TokenError"
        ELSE IF pool.total_bpt + bpt_out > U64_MAX THEN "MathUnderflow"
        ELSE "Ok"

\* A failed join undoes everything; the record keeps what was asked.
JoinFailed(amounts_in, remaining_accounts, result) ==
    /\ UNCHANGED <<pool, vault_bal, user_bal, user_lp>>
    /\ ix' = [name |-> "join", result |-> result, transferred |-> <<>>,
              bpt_out_fp |-> 0, minted |-> 0, amounts_in |-> amounts_in,
              remaining_accounts |-> remaining_accounts]

join_exact_tokens_in_for_bpt_out(amounts_in, remaining_accounts) ==
    LET n == Len(pool.weights)
    IN  IF remaining_accounts # n * 2 \/ Len(amounts_in) # n
        THEN JoinFailed(amounts_in, remaining_accounts, "LengthMismatch")
        ELSE \E bpt_out_fp \in {JoinBptOutFp(amounts_in)} :
               LET bpt_out == bpt_out_fp \div ONE
                   result == JoinResult(amounts_in, bpt_out_fp)
               IN  IF result = "Ok"
                   THEN /\ vault_bal' = [i \in 1 .. n |->
                                            vault_bal[i] + amounts_in[i]]
                        /\ user_bal' = [i \in 1 .. n |->
                                           user_bal[i] - amounts_in[i]]
                        /\ user_lp' = user_lp + bpt_out
                        /\ pool' = [pool EXCEPT
                                      !.total_bpt = pool.total_bpt + bpt_out]
                        /\ ix' = [name |-> "join", result |-> "Ok",
                                  transferred |-> amounts_in,
                                  bpt_out_fp |-> bpt_out_fp,
                                  minted |-> bpt_out,
                                  amounts_in |-> amounts_in,
                                  remaining_accounts |-> remaining_accounts]
                   ELSE JoinFailed(amounts_in, remaining_accounts, result)

\* One amount per pool token, or a vector of another length.
JoinAmounts ==
    [1 .. Len(pool.weights) -> 0 .. MaxTokens] \cup {<<>>, <<1, 1, 1>>}

Join ==
    /\ \E remaining_accounts \in {2 * Len(pool.weights) - 1,
                                  2 * Len(pool.weights)},
          amounts_in \in JoinAmounts :
        join_exact_tokens_in_for_bpt_out(amounts_in, remaining_accounts)
    /\ UNCHANGED <<mathVars, vaultVars>>

\* The fixed-point amount each token's exit is priced at.
ExitOutFp(bpt_in) ==
    [i \in 1 .. Len(pool.weights) |->
        calc_token_out_given_exact_bpt_in(
            U256Mul(vault_bal[i], ONE), pool.weights[i],
            U256Mul(bpt_in, ONE), U256Mul(pool.total_bpt, ONE),
            pool.swap_fee)]

\* The outcome of the exit once both guards have passed.
ExitResult(bpt_in, out_fp) ==
    LET tokens_out == [i \in 1 .. Len(out_fp) |-> out_fp[i] \div ONE]
    IN  IF FirstPanic(out_fp, 1) < 0 THEN "Panic"
        ELSE IF \E i \in 1 .. Len(out_fp) : tokens_out[i] > U64_MAX
        THEN "Panic"
        ELSE IF user_lp < bpt_in THEN "TokenError"
        ELSE IF ~TransfersOk(vault_bal, user_bal, tokens_out)
        THEN "TokenError"
        ELSE "Ok"

ExitFailed(bpt_in, result) ==
    /\ UNCHANGED <<pool, vault_bal, user_bal, user_lp>>
    /\ ix' = [name |-> "exit", result |-> result, bpt_in |-> bpt_in,
              total_bpt |-> pool.total_bpt, balances |-> vault_bal,
              transferred |-> <<>>]

exit_exact_bpt_in_for_tokens_out(bpt_in, remaining_accounts) ==
    LET n == Len(pool.weights)
    IN  IF remaining_accounts # n * 2
        THEN ExitFailed(bpt_in, "LengthMismatch")
        ELSE IF ~(bpt_in > 0 /\ bpt_in <= pool.total_bpt)
        THEN ExitFailed(bpt_in, "MathUnderflow")
        ELSE \E out_fp \in {ExitOutFp(bpt_in)} :
               LET result == ExitResult(bpt_in, out_fp)
                   tokens_out == [i \in 1 .. n |-> out_fp[i] \div ONE]
               IN  IF result = "Ok"
                   THEN /\ user_lp' = user_lp - bpt_in
                        /\ vault_bal' = [i \in 1 .. n |->
                                            vault_bal[i] - tokens_out[i]]
                        /\ user_bal' = [i \in 1 .. n |->
                                           user_bal[i] + tokens_out[i]]
                        /\ pool' = [pool EXCEPT
                                      !.total_bpt = pool.total_bpt - bpt_in]
                        /\ ix' = [name |-> "exit", result |-> "Ok",
                                  bpt_in |-> bpt_in,
                                  total_bpt |-> pool.total_bpt,
                                  balances |-> vault_bal,
                                  transferred |-> tokens_out]
                   ELSE ExitFailed(bpt_in, result)

Exit ==
    /\ \E bpt_in \in 0 .. MaxTokens,
          remaining_accounts \in {2 * Len(pool.weights),
                                  2 * Len(pool.weights) + 1} :
        exit_exact_bpt_in_for_tokens_out(bpt_in, remaining_accounts)
    /\ UNCHANGED <<mathVars, vaultVars>>

\* The fixed-point output the swap computes, with the arguments in the
\* order the instruction passes them.
SwapOutFp(vault_in, vault_out, amount_in) ==
    LET balance_in_fp == U256Mul(vault_bal[vault_in], ONE)
        balance_out_fp == U256Mul(vault_bal[vault_out], ONE)
        fee_fp == pool.swap_fee
        weight_in_fp == pool.weights[1]
        weight_out_fp == pool.weights[2]
        amount_in_fp == U256Mul(amount_in, ONE)
    IN  calc_out_given_in(balance_in_fp, balance_out_fp, weight_in_fp,
                          weight_out_fp, amount_in_fp, fee_fp)

SwapResult(vault_in, vault_out, amount_in, minimum_amount_out, out_fp) ==
    LET amount_out == out_fp \div ONE
    IN  IF out_fp < 0 THEN "Panic"
        ELSE IF amount_out > U64_MAX THEN "Panic"
        ELSE IF ~(amount_out >= minimum_amount_out) THEN "MathUnderflow"
        ELSE IF user_bal[vault_in] < amount_in
                \/ vault_bal[vault_in] + amount_in > U64_MAX
        THEN "TokenError"
        ELSE IF vault_bal[vault_out] < amount_out
                \/ user_bal[vault_out] + amount_out > U64_MAX
        THEN "TokenError"
        ELSE "Ok"

swap_exact_token_in_for_token_out(vault_in, vault_out, amount_in, minimum_amount_out) ==
    \E out_fp \in {SwapOutFp(vault_in, vault_out, amount_in)} :
        LET result == SwapResult(vault_in, vault_out, amount_in,
                                 minimum_amount_out, out_fp)
            amount_out == out_fp \div ONE
            done == [name |-> "swap", result |-> result,
                     vault_in |-> vault_in, vault_out |-> vault_out,
                     balance_in |-> vault_bal[vault_in],
                     balance_out |-> vault_bal[vault_out],
                     amount_in |-> amount_in,
                     minimum_amount_out |-> minimum_amount_out,
                     amount_out |-> 0]
        IN  IF result = "Ok"
            THEN /\ vault_bal' = [vault_bal EXCEPT
                                    ![vault_in] = @ + amount_in,
                                    ![vault_out] = @ - amount_out]
                 /\ user_bal' = [user_bal EXCEPT
                                   ![vault_in] = @ - amount_in,
                                   ![vault_out] = @ + amount_out]
                 /\ ix' = [done EXCEPT !.amount_out = amount_out]
                 /\ UNCHANGED <<pool, user_lp>>
            ELSE /\ ix' = done
                 /\ UNCHANGED <<pool, vault_bal, user_bal, user_lp>>

\* The swap context takes any two vault accounts; the pool has two tokens.
Swap ==
    /\ \E vault_in \in 1 .. 2, amount_in \in 0 .. MaxTokens,
          minimum_amount_out \in 0 .. 1 :
        swap_exact_token_in_for_token_out(vault_in, 3 - vault_in, amount_in,
                                          minimum_amount_out)
    /\ UNCHANGED <<mathVars, vaultVars>>

----------------------------------------------------------------------------
(* vault program, and initialize_pool which calls it                       *)
(*                                                                         *)
(* One VaultState account is followed. Its address is the program address  *)
(* derived from the seeds it was created with, modelled by the seeds       *)
(* themselves: two addresses are equal exactly when their seed keys are.   *)

Keys == {"alice", "bob"}

NoVaultState ==
    [created |-> FALSE, payer |-> "none", owner |-> "none", pool_count |-> 0]

NoPool == [weights |-> <<>>, swap_fee |-> 0, total_bpt |-> 0]

\* The address Initialize creates the account at.
VaultStateAddress(key) == <<"vault-state", key>>

\* The record of a vault instruction: who signed, and the owner key where
\* one was given.
VaultIx(name, result, signer) ==
    [name |-> name, result |-> result, signer |-> signer, owner |-> "none"]

\* Initialize: `init` creates the account at the address seeded by the
\* payer, and fails when that account exists already.
initialize(payer, owner) ==
    IF vault_state.created
    THEN /\ ix' = [VaultIx("initialize", "AccountInUse", payer)
                      EXCEPT !.owner = owner]
         /\ UNCHANGED <<vault_state, registered>>
    ELSE /\ vault_state' = [created |-> TRUE, payer |-> payer,
                            owner |-> owner, pool_count |-> 0]
         /\ registered' = 0
         /\ ix' = [VaultIx("initialize", "Ok", payer) EXCEPT !.owner = owner]

\* The account constraints of RegisterPool, then the handler.
RegisterPoolResult(signer) ==
    IF ~vault_state.created THEN "AccountNotInitialized"
    ELSE IF VaultStateAddress(vault_state.owner)
              # VaultStateAddress(vault_state.payer)
    THEN "ConstraintSeeds"
    ELSE IF vault_state.owner # signer THEN "ConstraintHasOne"
    ELSE IF vault_state.pool_count + 1 > U64_MAX THEN "Overflow"
    ELSE "Ok"

\* register_pool with a wrapping addition in place of checked_add.
register_pool_wrapping(signer) ==
    LET result == RegisterPoolResult(signer)
    IN  IF result = "Overflow"
        THEN /\ ix' = VaultIx("register_pool", "Ok", signer)
             /\ vault_state' = [vault_state EXCEPT !.pool_count = 0]
             /\ registered' = registered + 1
        ELSE /\ ix' = VaultIx("register_pool", result, signer)
             /\ IF result = "Ok"
                THEN /\ vault_state' = [vault_state EXCEPT
                                          !.pool_count = @ + 1]
                     /\ registered' = registered + 1
                ELSE UNCHANGED <<vault_state, registered>>

register_pool(signer) ==
    LET result == RegisterPoolResult(signer)
    IN  /\ ix' = VaultIx("register_pool", result, signer)
        /\ IF result = "Ok"
           THEN /\ vault_state' = [vault_state EXCEPT !.pool_count = @ + 1]
                /\ registered' = registered + 1
           ELSE UNCHANGED <<vault_state, registered>>

\* initialize_pool: the pool account is created (`init`), the handler
\* checks the vault count, fills the pool and registers it with the vault,
\* the payer standing as owner; any failure undoes the whole instruction.
initialize_pool(payer, weights, swap_fee, remaining_accounts) ==
    LET registration == RegisterPoolResult(payer)
        result == IF pool # NoPool THEN "AccountInUse"
                  ELSE IF ~vault_state.created THEN "AccountNotInitialized"
                  ELSE IF Len(weights) # remaining_accounts
                  THEN "LengthMismatch"
                  ELSE registration
    IN  /\ ix' = VaultIx("initialize_pool", result, payer)
        /\ IF result = "Ok"
           THEN /\ pool' = InitializedPool(weights, swap_fee)
                /\ vault_state' = [vault_state EXCEPT !.pool_count = @ + 1]
                /\ registered' = registered + 1
           ELSE UNCHANGED <<pool, vault_state, registered>>

VaultInitialize ==
    /\ \E payer \in Keys, owner \in Keys : initialize(payer, owner)
    /\ UNCHANGED <<mathVars, pool, vault_bal, user_bal, user_lp>>

VaultRegisterPool ==
    /\ \E signer \in Keys : register_pool(signer)
    /\ UNCHANGED <<mathVars, pool, vault_bal, user_bal, user_lp>>

InitializePool ==
    /\ \E payer \in Keys, swap_fee \in PoolFees,
          remaining_accounts \in {Len(PoolWeights), Len(PoolWeights) + 1} :
        initialize_pool(payer, PoolWeights, swap_fee, remaining_accounts)
    /\ UNCHANGED <<mathVars, vault_bal, user_bal, user_lp>>

\* A vault whose owner created it and registered one pool.
RegisteredVault ==
    /\ vault_state = [created |-> TRUE, payer |-> "alice",
                      owner |-> "alice", pool_count |-> 1]
    /\ registered = 1

----------------------------------------------------------------------------
(* Specifications *)

FreshPool ==
    /\ pool = InitializedPool(PoolWeights, 0)
    /\ vault_bal = <<0, 0>>
    /\ user_bal = <<0, 0>>
    /\ user_lp = 0
    /\ ix = NoIx

\* The math layer: a run of calls.
Init ==
    /\ call = NoCall
    /\ prev = NoCall
    /\ FreshPool
    /\ RegisteredVault

Next ==
    \/ MulDown
    \/ MulUp
    \/ DivDown
    \/ DivUp
    \/ PowDown
    \/ PowUp
    \/ Pow
    \/ CalculateInvariant
    \/ CalcOutGivenIn
    \/ CalcInGivenOut
    \/ CalcBptOutGivenExactTokensIn
    \/ CalcTokenInGivenExactBptOut
    \/ CalcTokensOutGivenExactBptIn
    \/ CalcBptInGivenExactTokensOut

Spec == Init /\ [][Next]_vars

\* The join instruction on any pool account it may be handed: the weights
\* and fee of initialize_pool, any supply, any vault and user balances.
AnyPoolInit ==
    /\ call = NoCall
    /\ prev = NoCall
    /\ \E swap_fee \in PoolFees, total_bpt \in 0 .. MaxTokens :
        pool = [InitializedPool(PoolWeights, swap_fee)
                    EXCEPT !.total_bpt = total_bpt]
    /\ vault_bal \in [1 .. 2 -> 0 .. MaxTokens]
    /\ user_bal = <<MaxTokens, MaxTokens>>
    /\ user_lp = 0
    /\ ix = NoIx
    /\ RegisteredVault

AnyPoolNext ==
    \/ Join

AnyPoolSpec == AnyPoolInit /\ [][AnyPoolNext]_vars

\* Any pool account the instructions may be handed: the weights and fee of
\* initialize_pool, any supply, any vault balances, a user with or without
\* LP tokens.
PoolInit ==
    /\ call = NoCall
    /\ prev = NoCall
    /\ \E swap_fee \in PoolFees, total_bpt \in 0 .. MaxTokens :
        pool = [InitializedPool(PoolWeights, swap_fee)
                    EXCEPT !.total_bpt = total_bpt]
    /\ vault_bal \in [1 .. 2 -> 0 .. MaxTokens]
    /\ user_bal = <<MaxTokens, MaxTokens>>
    /\ user_lp \in {0, MaxTokens}
    /\ ix = NoIx
    /\ RegisteredVault

PoolNext ==
    \/ Join
    \/ Exit
    \/ Swap

\* Exits alone, and swaps alone, from any such pool state.
ExitNext ==
    \/ Exit

AnyPoolExitSpec == PoolInit /\ [][ExitNext]_vars

SwapNext ==
    \/ Swap

AnyPoolSwapSpec == PoolInit /\ [][SwapNext]_vars

\* The pool initialize_pool leaves, against vaults holding any balances.
FreshPoolInit ==
    /\ call = NoCall
    /\ prev = NoCall
    /\ \E swap_fee \in PoolFees : pool = InitializedPool(PoolWeights, swap_fee)
    /\ vault_bal \in [1 .. 2 -> 0 .. MaxTokens]
    /\ user_bal = <<MaxTokens, MaxTokens>>
    /\ user_lp = 0
    /\ ix = NoIx
    /\ RegisteredVault

FreshPoolNext ==
    \/ Join

\* Joins alone; users keep submitting them.
FreshPoolSpec ==
    /\ FreshPoolInit
    /\ [][FreshPoolNext]_vars
    /\ WF_vars(Join)

\* Joins, exits and swaps in any order.
FreshPoolAnySpec == FreshPoolInit /\ [][PoolNext]_vars

\* The vault program from before its account exists, with the pool program's
\* initialize_pool calling into it.
VaultInit ==
    /\ call = NoCall
    /\ prev = NoCall
    /\ pool = NoPool
    /\ vault_bal = <<0, 0>>
    /\ user_bal = <<0, 0>>
    /\ user_lp = 0
    /\ ix = NoIx
    /\ vault_state = NoVaultState
    /\ registered = 0

VaultNext ==
    \/ VaultInitialize
    \/ VaultRegisterPool
    \/ InitializePool

VaultSpec == VaultInit /\ [][VaultNext]_vars

----------------------------------------------------------------------------
(* Claims *)

VectorOps == {"calculate_invariant", "calc_bpt_out_given_exact_tokens_in",
              "calc_bpt_in_given_exact_tokens_out"}

\* The lengths of the vectors a vector-taking call was given.
VectorLens(c) ==
    CASE c.op = "calculate_invariant" ->
            {Len(c.args.balances), Len(c.args.weights)}
      [] c.op = "calc_bpt_out_given_exact_tokens_in" ->
            {Len(c.args.balances), Len(c.args.weights),
             Len(c.args.amounts_in)}
      [] c.op = "calc_bpt_in_given_exact_tokens_out" ->
            {Len(c.args.balances), Len(c.args.weights),
             Len(c.args.amounts_out)}

RECURSIVE SumSeq(_, _)
SumSeq(vec, i) == IF i > Len(vec) THEN 0 ELSE vec[i] + SumSeq(vec, i + 1)

\* C1: calculate_invariant, calc_bpt_out_given_exact_tokens_in and
\* calc_bpt_in_given_exact_tokens_out fail with a length error, and return
\* no number, whenever their vectors differ in length or are empty.
C1_LengthErrorOnBadVectors ==
    (/\ call.op \in VectorOps
     /\ (Cardinality(VectorLens(call)) > 1 \/ 0 \in VectorLens(call)))
    => (~call.res.ok /\ call.res.val = PanicLength)

TestJoinArgs ==
    [balances |-> <<50 * ONE, 50 * ONE>>,
     weights |-> <<ONE \div 2, ONE \div 2>>,
     amounts_in |-> <<10 * ONE, 0>>,
     total_bpt |-> 100 * ONE,
     swap_fee |-> ONE \div 1000]

\* C2: with balances [50, 50], weights [0.5, 0.5], amounts_in [10, 0],
\* total_bpt 100 and swap_fee 0.001 the join mints bpt_out > 0, and the
\* proportional exit of that bpt_out against the supply total_bpt + bpt_out,
\* with no exit fee, pays out more than 8.0 of token 0.
C2_JoinExitRoundTrip ==
    (/\ prev.op = "calc_bpt_out_given_exact_tokens_in"
     /\ prev.args = TestJoinArgs
     /\ call.op = "calc_tokens_out_given_exact_bpt_in"
     /\ call.args.exit_fee = 0)
    => (/\ prev.res.val > 0
        /\ call.res.ok
        /\ call.res.vec[1] > 8 * ONE)

\* C3: for positive balances and weights, a fee below ONE and amount_in > 0,
\* when calc_out_given_in pays out less than balance_out, calc_in_given_out
\* asks at least amount_in for that output.
C3_SwapRoundTrip ==
    (/\ prev.op = "calc_out_given_in"
     /\ call.op = "calc_in_given_out"
     /\ prev.args.amount_in > 0
     /\ prev.args.swap_fee < ONE
     /\ prev.res.val < prev.args.balance_out
     /\ call.args.amount_out = prev.res.val)
    => (call.res.ok /\ call.res.val >= prev.args.amount_in)

\* The preconditions calc_bpt_in_given_exact_tokens_out states.
ExitPreconditions(args) ==
    /\ Len(args.balances) = Len(args.weights)
    /\ Len(args.balances) = Len(args.amounts_out)
    /\ \A i \in 1 .. Len(args.balances) :
        args.balances[i] > 0 /\ args.amounts_out[i] <= args.balances[i]
    /\ SumSeq(args.weights, 1) = ONE
    /\ args.swap_fee < ONE

\* C4: under its preconditions (equal lengths, positive balances, no amount
\* above its balance, weights summing to ONE, a fee below ONE)
\* calc_bpt_in_given_exact_tokens_out underflows in no subtraction and
\* returns a value.
C4_ExitNeverUnderflows ==
    (/\ call.op = "calc_bpt_in_given_exact_tokens_out"
     /\ ExitPreconditions(call.args))
    => call.res.ok

\* C5: for balance_in > 0, total_bpt > 0, bpt_out > 0, 0 < weight_in <= ONE
\* and a fee below ONE, calc_token_in_given_exact_bpt_out returns a value,
\* and the value is at least the proportional amount
\* mul_up(balance_in, div_up(total_bpt + bpt_out, total_bpt) - ONE).
C5_SingleTokenJoinCompletes ==
    (/\ call.op = "calc_token_in_given_exact_bpt_out"
     /\ call.args.balance_in > 0
     /\ call.args.total_bpt > 0
     /\ call.args.bpt_out > 0
     /\ call.args.weight_in > 0
     /\ call.args.weight_in <= ONE
     /\ call.args.swap_fee < ONE)
    => (/\ call.res.ok
        /\ call.res.val >=
               mul_up(call.args.balance_in,
                      div_up(call.args.total_bpt + call.args.bpt_out,
                             call.args.total_bpt) - ONE))

C7_RoundingBrackets ==
    LET a == call.args.a
        b == call.args.b
        r == call.res.val
    IN  /\ (call.op = "mul_down" /\ U256Mul(a, b) >= 0)
            => /\ call.res.ok
               /\ r * ONE <= a * b
               /\ a * b - r * ONE < ONE
        /\ (call.op = "mul_up" /\ U256Mul(a, b) >= 0)
            => /\ call.res.ok
               /\ a * b <= r * ONE
               /\ r * ONE - a * b < ONE
               /\ mul_down(a, b) <= r
               /\ r <= mul_down(a, b) + 1
        /\ (call.op = "div_down" /\ b # 0)
            => /\ call.res.ok
               /\ r * b <= a * ONE
               /\ a * ONE - r * b < b
        /\ (call.op = "div_up" /\ b # 0)
            => /\ call.res.ok
               /\ a * ONE <= r * b
               /\ r * b - a * ONE < b
               /\ div_down(a, b) <= r
               /\ r <= div_down(a, b) + 1

\* C7 (amended): mul_down returns exactly when a*b fits the width, mul_up
\* when an operand is 0 or a*b + ONE fits, div_down when b # 0 and a*ONE
\* fits, div_up when a = 0 or b # 0 and a*ONE + b fits. Whenever they
\* return, mul_down is floor(a*b/ONE) and mul_up is ceil(a*b/ONE) (0 if an
\* operand is 0) with mul_down <= mul_up <= mul_down + 1, and for b # 0
\* div_down is floor(a*ONE/b) and div_up is ceil(a*ONE/b) (0 if a is 0)
\* with div_down <= div_up <= div_down + 1.
C7_RoundingBracketsWhenReturned ==
    LET a == call.args.a
        b == call.args.b
        r == call.res.val
    IN  /\ call.op = "mul_down"
            => /\ call.res.ok <=> U256Mul(a, b) >= 0
               /\ call.res.ok => (r * ONE <= a * b /\ a * b - r * ONE < ONE)
        /\ call.op = "mul_up"
            => /\ call.res.ok
                    <=> (a = 0 \/ b = 0 \/ U256Add(U256Mul(a, b), ONE) >= 0)
               /\ call.res.ok
                    => /\ (a = 0 \/ b = 0) => r = 0
                       /\ a * b <= r * ONE
                       /\ r * ONE - a * b < ONE
                       /\ mul_down(a, b) <= r
                       /\ r <= mul_down(a, b) + 1
        /\ call.op = "div_down"
            => /\ call.res.ok <=> (b # 0 /\ U256Mul(a, ONE) >= 0)
               /\ call.res.ok => (r * b <= a * ONE /\ a * ONE - r * b < b)
        /\ call.op = "div_up"
            => /\ call.res.ok
                    <=> (a = 0 \/ (b # 0 /\ U256Add(U256Mul(a, ONE), b) >= 0))
               /\ (call.res.ok /\ b # 0)
                    => /\ a = 0 => r = 0
                       /\ a * ONE <= r * b
                       /\ r * b - a * ONE < b
                       /\ div_down(a, b) <= r
                       /\ r <= div_down(a, b) + 1

\* A product above ONE that is no multiple of it: mul_up is one above
\* mul_down.
C7_Witness ==
    /\ call.op = "mul_up"
    /\ call.res.ok
    /\ call.args.a * call.args.b > ONE
    /\ call.res.val = mul_down(call.args.a, call.args.b) + 1

\* C8: for every base, 0 included, pow_up(base, 0) = ONE and
\* pow_down(base, 0) = ONE; for every exp > 0, pow_up(0, exp) = 0 and
\* pow_down(0, exp) = 0; pow returns the same on these inputs.
C8_PowEdgeCases ==
    call.op \in {"pow_up", "pow_down", "pow"}
    => /\ call.args.exp = 0 => (call.res.ok /\ call.res.val = ONE)
       /\ (call.args.exp > 0 /\ call.args.base = 0)
            => (call.res.ok /\ call.res.val = 0)
       /\ (call.op = "pow" /\ (call.args.exp = 0 \/ call.args.base = 0))
            => call.res.val = pow_down(call.args.base, call.args.exp)

\* pow_up on base 0 and exponent 0, where the two rules meet.
C8_Witness ==
    /\ call.op = "pow_up"
    /\ call.args.base = 0
    /\ call.args.exp = 0
    /\ call.res.val = ONE

C11_SwapPricesEachQuantityInItsRole ==
    ix.name = "swap"
    => LET out_fp == calc_out_given_in(
                         U256Mul(ix.balance_in, ONE), pool.weights[1],
                         U256Mul(ix.balance_out, ONE), pool.weights[2],
                         U256Mul(ix.amount_in, ONE), pool.swap_fee)
       IN  /\ ix.result = "Ok"
                => (out_fp >= 0 /\ ix.amount_out = out_fp \div ONE)
           /\ (out_fp >= 0 /\ out_fp \div ONE < ix.minimum_amount_out)
                => ix.result # "Ok"

C13_PowUpNeverUnderstates ==
    call.op = "pow_up"
    => /\ (0 < call.args.base /\ call.args.base <= ONE /\ call.args.exp = ONE)
            => (call.res.ok /\ call.res.val >= call.args.base)
       /\ call.args.base = ONE => (call.res.ok /\ call.res.val = ONE)

\* What the pool instructions keep of the pool initialize_pool leaves: no
\* BPT is ever in supply.
FreshPoolStaysEmpty == pool.total_bpt = 0

\* A join with one positive amount per token and the right accounts was
\* the instruction processed last.
PositiveJoinSubmitted ==
    /\ ix.name = "join"
    /\ ix.remaining_accounts = 2 * Len(pool.weights)
    /\ Len(ix.amounts_in) = Len(pool.weights)
    /\ \A i \in 1 .. Len(ix.amounts_in) : ix.amounts_in[i] > 0

\* C14: from the state initialize_pool leaves (total_bpt = 0), against vaults
\* holding any balances, submitting joins with positive amounts_in again and
\* again leads to a join that has returned Ok with pool.total_bpt > 0.
C14_FreshPoolReceivesLiquidity ==
    ([]<>PositiveJoinSubmitted)
    => <>(/\ ix.name = "join"
          /\ ix.result = "Ok"
          /\ pool.total_bpt > 0)

\* C15: initialize sets pool_count to 0 and owner to the key given; at all
\* times pool_count is the number of register_pool calls that have returned
\* Ok since initialize; a register_pool issued when pool_count is the
\* largest u64 does not return Ok, returns Overflow once its account checks
\* have passed, and leaves the vault state (pool_count and owner) as it was.
C15_VaultPoolCounting ==
    /\ [](vault_state.created => vault_state.pool_count = registered)
    /\ [][/\ (ix'.name = "initialize" /\ ix'.result = "Ok")
              => /\ vault_state'.pool_count = 0
                 /\ vault_state'.owner = ix'.owner
          /\ (ix'.name = "register_pool"
              /\ vault_state.created
              /\ vault_state.pool_count = U64_MAX)
              => /\ ix'.result # "Ok"
                 /\ vault_state' = vault_state
                 /\ registered' = registered
                 /\ (ix'.signer = vault_state.owner
                     /\ vault_state.owner = vault_state.payer)
                      => ix'.result = "Overflow"]_vars

\* A register_pool has returned Overflow with the count at the largest u64,
\* every unit of it a call that returned Ok.
C15_Witness ==
    /\ ix.name = "register_pool"
    /\ ix.result = "Overflow"
    /\ vault_state.pool_count = U64_MAX
    /\ registered = U64_MAX

\* C16: for a vault state created by initialize(owner) with any payer,
\* register_pool passes its account checks exactly when the signer is the
\* stored owner, also when the owner differs from the payer.
C16_RegistrationOpenToTheOwner ==
    (ix.name = "register_pool" /\ vault_state.created)
    => ((ix.result \in {"Ok", "Overflow"}) <=> ix.signer = vault_state.owner)

====
